---- MODULE Spec2Model ----
(***************************************************************************)
(* Model of hub discovery and dual-hub correlation of uhubctl              *)
(* (src/usb.h: get_hub_info, get_device_description, usb_find_hubs).       *)
(*                                                                         *)
(* C strings are sequences of one-character strings; the terminating NUL   *)
(* is the character read past the end of the sequence.  Array indices (i,  *)
(* match, hub_count) keep their C values (0-based); hubs[k] of the C code  *)
(* is hubs[k+1] here.                                                      *)
(***************************************************************************)
EXTENDS Integers, Sequences, FiniteSets, TLC

\* Largest number of devices in the snapshot returned by libusb_get_device_list.
MaxDevs == 3

\* The hub characteristics words examined are those of WordBits bits.
WordBits == 8

\* Largest number of PPPS hubs attached beyond the capacity of the registry.
CapExtra == 2

----------------------------------------------------------------------------
(* Program constants *)

USB_SS_BCD == 768

MAX_HUBS == 128

\* int minlen = LIBUSB_DT_HUB_NONVAR_SIZE + 2
minlen == 9

LIBUSB_CLASS_HUB == 9

LIBUSB_ERROR_IO == -1

LIBUSB_ERROR_INVALID_PARAM == -2

LIBUSB_ERROR_ACCESS == -3

HUB_CHAR_LPSM == 3

HUB_CHAR_INDV_PORT_LPSM == 1

HUB_CHAR_OCPM == 24

HUB_CHAR_COMMON_OCPM == 0

HUB_CHAR_INDV_PORT_OCPM == 8

MAX_HUB_PORTS == 9

\* ((1 << MAX_HUB_PORTS) - 1)
ALL_HUB_PORTS == 511

POWER_KEEP == -1

POWER_OFF == 0

POWER_ON == 1

POWER_CYCLE == 2

USB_PORT_STAT_POWER == 256

USB_SS_PORT_STAT_POWER == 512

\* The null pointer / the terminating NUL character.
NULL == "NULL"

NUL == ""

----------------------------------------------------------------------------
(* libc: characters and strings *)

UpperCase == <<"A", "B", "C", "D", "E", "F">>

LowerCase == <<"a", "b", "c", "d", "e", "f">>

tolower(c) ==
    IF \E k \in 1..Len(UpperCase) : UpperCase[k] = c
    THEN LowerCase[CHOOSE k \in 1..Len(UpperCase) : UpperCase[k] = c]
    ELSE c

\* s[k] of a C string, k 0-based; the NUL at and past the end.
CharAt(s, k) == IF k < Len(s) THEN s[k + 1] ELSE NUL

strlen(s) == Len(s)

RECURSIVE CaseCmpFrom(_, _, _, _)
\* The comparison loop of strncasecmp from offset k: 0 when the first n
\* characters agree up to case (or both strings end), 1 otherwise.
CaseCmpFrom(s1, s2, n, k) ==
    IF k >= n THEN 0
    ELSE IF tolower(CharAt(s1, k)) # tolower(CharAt(s2, k)) THEN 1
    ELSE IF CharAt(s1, k) = NUL THEN 0
    ELSE CaseCmpFrom(s1, s2, n, k + 1)

strncasecmp(s1, s2, n) == CaseCmpFrom(s1, s2, n, 0)

strcasecmp(s1, s2) ==
    CaseCmpFrom(s1, s2, (IF Len(s1) > Len(s2) THEN Len(s1) ELSE Len(s2)) + 1, 0)

\* strchr: the tail of s from the first occurrence of c, or NULL.
strchr(s, c) ==
    IF \E k \in 1..Len(s) : s[k] = c
    THEN LET first == CHOOSE k \in 1..Len(s) :
                          s[k] = c /\ \A m \in 1..(k - 1) : s[m] # c
         IN  SubSeq(s, first, Len(s))
    ELSE NULL

HexDigits ==
    <<"0", "1", "2", "3", "4", "5", "6", "7", "8", "9", "a", "b", "c", "d", "e", "f">>

RECURSIVE FmtHex(_)
\* printf "%x"
FmtHex(n) ==
    IF n < 16 THEN <<HexDigits[n + 1]>>
    ELSE FmtHex(n \div 16) \o <<HexDigits[(n % 16) + 1]>>

RECURSIVE ZeroPad(_, _)
ZeroPad(s, w) == IF Len(s) >= w THEN s ELSE ZeroPad(<<"0">> \o s, w)

\* printf "%04x" and "%02x"
FmtHex04(n) == ZeroPad(FmtHex(n), 4)

FmtHex02(n) == ZeroPad(FmtHex(n), 2)

RECURSIVE FmtDec(_)
\* printf "%d" of a non-negative number
FmtDec(n) ==
    IF n < 10 THEN <<HexDigits[n + 1]>>
    ELSE FmtDec(n \div 10) \o <<HexDigits[(n % 10) + 1]>>

RECURSIVE BitAnd(_, _)
\* a & b on non-negative integers
BitAnd(a, b) ==
    IF a = 0 \/ b = 0 THEN 0
    ELSE (a % 2) * (b % 2) + 2 * BitAnd(a \div 2, b \div 2)

----------------------------------------------------------------------------
(* The USB devices libusb can enumerate.  A device is what libusb returns  *)
(* for it: the result of libusb_get_device_descriptor and the descriptor   *)
(* fields, its bus and port numbers, the result of libusb_open, and the    *)
(* length and content of the hub descriptor transfer.                      *)

HubDev ==
    [descRc |-> 0, bDeviceClass |-> LIBUSB_CLASS_HUB, bcdUSB |-> 512,
     idVendor |-> 1105, idProduct |-> 33090, bus |-> 1, ports |-> <<2>>,
     openRc |-> 0, len |-> 9, bNbrPorts |-> 4, wHubCharacteristics |-> 9]

NamedDevs ==
    [name \in {"kbd", "nodesc", "noopen", "xfererr", "xfer0", "xfer8", "ganged",
               "ti2", "ti3", "ti3b", "gl2", "gl3"} |->
       CASE name = "kbd"     -> [HubDev EXCEPT !.bDeviceClass = 0, !.idVendor = 1133,
                                                !.idProduct = 49948, !.ports = <<2, 1>>]
         [] name = "nodesc"  -> [HubDev EXCEPT !.descRc = LIBUSB_ERROR_IO, !.ports = <<4>>]
         [] name = "noopen"  -> [HubDev EXCEPT !.openRc = LIBUSB_ERROR_ACCESS, !.ports = <<5>>]
         [] name = "xfererr" -> [HubDev EXCEPT !.len = LIBUSB_ERROR_IO, !.ports = <<6>>]
         [] name = "xfer0"   -> [HubDev EXCEPT !.len = 0, !.ports = <<7>>]
         [] name = "xfer8"   -> [HubDev EXCEPT !.len = 8, !.ports = <<8>>]
         [] name = "ganged"  -> [HubDev EXCEPT !.wHubCharacteristics = 0, !.bus = 3,
                                                !.ports = <<>>]
         [] name = "ti2"     -> HubDev
         [] name = "ti3"     -> [HubDev EXCEPT !.bcdUSB = 768, !.idProduct = 33088,
                                                !.bus = 2]
         [] name = "ti3b"    -> [HubDev EXCEPT !.bcdUSB = 768, !.idProduct = 33088,
                                                !.bus = 2, !.ports = <<1>>]
         [] name = "gl2"     -> [HubDev EXCEPT !.idVendor = 6699, !.idProduct = 2,
                                                !.ports = <<3>>, !.wHubCharacteristics = 225]
         [] name = "gl3"     -> [HubDev EXCEPT !.bcdUSB = 784, !.idVendor = 6699,
                                                !.idProduct = 2, !.bus = 4, !.ports = <<>>,
                                                !.wHubCharacteristics = 1]]

Devices == DOMAIN NamedDevs

RECURSIVE Pow2(_)
Pow2(n) == IF n = 0 THEN 1 ELSE 2 * Pow2(n - 1)

\* One hub for every value of the low WordBits bits of wHubCharacteristics.
Words == 0..(Pow2(WordBits) - 1)

WordName(w) == "w" \o ToString(w)

WordDevs == {WordName(w) : w \in Words}

WordOf(name) == CHOOSE w \in Words : WordName(w) = name

\* PPPS hubs on the ports 1, 2, ... of bus 1: more of them than MAX_HUBS.
PortNumbers == 1..(MAX_HUBS + CapExtra)

PortName(n) == "p" \o ToString(n)

PortDevs == {PortName(n) : n \in PortNumbers}

PortOf(name) == CHOOSE n \in PortNumbers : PortName(n) = name

\* Every device that can be attached.
DevTable ==
    [name \in Devices \cup WordDevs \cup PortDevs |->
       IF name \in Devices THEN NamedDevs[name]
       ELSE IF name \in WordDevs
       THEN [HubDev EXCEPT !.wHubCharacteristics = WordOf(name), !.ports = <<9>>]
       ELSE [HubDev EXCEPT !.ports = <<PortOf(name)>>]]

\* Snapshots: every device is attached at its own place, so it is listed once.
Snapshots ==
    UNION {{s \in [1..n -> Devices] : \A a, b \in 1..n : s[a] = s[b] => a = b} :
           n \in 0..MaxDevs}

\* The -l and -n options the program is run with.
LocationOpts == {<<>>, <<"1", "-", "2">>}

VendorOpts == {<<>>, <<"1", "A", "2", "B">>,
               <<"0", "4", "5", "1", ":", "8", "1", "4", "0">>}

\* The pairs of -l and -n options the program is run with.
FilterOpts ==
    (LocationOpts \X VendorOpts) \cup {<<(<<"2", "-", "1">>), (<<>>)>>}

----------------------------------------------------------------------------
(* State *)

VARIABLES
    usb_devs,        \* the enumerated devices (without the terminating NULL)
    location,        \* arguments of usb_find_hubs
    vendor,
    exact,
    pc,              \* position in usb_find_hubs: "scan", "correlate", "done"
    i,               \* loop index of the scan loop, then of the correlation loop
    match,           \* the dual chosen in the last correlation iteration
    perm_ok,
    hubs,
    hub_count,
    hub_phys_count,
    rc,              \* value returned by usb_find_hubs
    io,              \* the libusb calls made by the last step, in order
    mpc,             \* position in main: "find" while usb_find_hubs runs
    opt_action,      \* options of uhubctl
    opt_ports,
    opt_reset,
    opt_repeat,
    opt_port,        \* option of uhubpwm
    main_k,          \* loop variables k and i of main
    main_i,
    port_status,     \* wPortStatus of every port of every hub (the devices' state)
    status_rc,       \* result of the port status transfers that fail (0: none fails)
    sent,            \* power, reset and delay steps of main so far, in order
    exit_rc          \* exit status of the process

findVars == <<usb_devs, location, vendor, exact, pc, i, match, perm_ok,
              hubs, hub_count, hub_phys_count, rc>>

mainVars == <<mpc, opt_action, opt_ports, opt_reset, opt_repeat, opt_port,
              main_k, main_i, port_status, status_rc, sent, exit_rc>>

vars == <<findVars, io, mainVars>>

\* A call of libusb: the function, the device, the port (wIndex) if any, the
\* function of this program that makes the call, and the value returned.
Call(op, dev, port, by, val) ==
    [op |-> op, dev |-> dev, port |-> port, by |-> by, val |-> val]

\* bzero(&info, sizeof(info))
ZeroInfo ==
    [dev |-> NULL, bcd_usb |-> 0, nports |-> 0, ppps |-> 0, actionable |-> 0,
     vendor |-> <<>>, location |-> <<>>, description |-> <<>>]

----------------------------------------------------------------------------
(* get_hub_info *)

\* LPSM must be supported per-port, and OCPM per port or ganged.
\* Variant: any over-current mode is accepted.
DecodePpps_AnyOcpm(w) ==
    IF BitAnd(w, HUB_CHAR_LPSM) = HUB_CHAR_INDV_PORT_LPSM THEN 1 ELSE 0

DecodePpps(w) ==
    LET lpsm == BitAnd(w, HUB_CHAR_LPSM)
        ocpm == BitAnd(w, HUB_CHAR_OCPM)
    IN  IF lpsm = HUB_CHAR_INDV_PORT_LPSM
           /\ (ocpm = HUB_CHAR_INDV_PORT_OCPM \/ ocpm = HUB_CHAR_COMMON_OCPM)
        THEN 1 ELSE 0

RECURSIVE AppendPorts(_, _, _)
\* The loop that appends "-N" for the first port number and ".N" for the rest.
AppendPorts(loc, port_numbers, k) ==
    IF k >= Len(port_numbers) THEN loc
    ELSE AppendPorts(loc \o <<(IF k = 0 THEN "-" ELSE ".")>> \o FmtDec(port_numbers[k + 1]),
                     port_numbers, k + 1)

\* Convert bus and ports array into USB location string.
MakeLocation(bus, port_numbers) == AppendPorts(FmtDec(bus), port_numbers, 0)

\* snprintf(info->vendor, ..., "%04x:%04x", idVendor, idProduct)
MakeVendor(idVendor, idProduct) == FmtHex04(idVendor) \o <<":">> \o FmtHex04(idProduct)

\* The value returned when the hub descriptor transfer is shorter than minlen.
ShortReadRc(len) == len

\* Variant: the handle is not closed when the descriptor is too short.
HubInfoClose_NotOnShortRead(dev, len) ==
    IF len >= minlen THEN <<Call("close", dev, 0, "get_hub_info", 0)>> ELSE <<>>

\* libusb_close(devh) at the end of the if (rc == 0) block of get_hub_info.
HubInfoClose(dev, len) == <<Call("close", dev, 0, "get_hub_info", 0)>>

\* The libusb calls of get_hub_info on a device descriptor that was read and
\* has the hub class.
HubInfoIo(dev) ==
    LET d == DevTable[dev]
    IN  IF d.openRc # 0 THEN <<Call("open", dev, 0, "get_hub_info", d.openRc)>>
        ELSE <<Call("open", dev, 0, "get_hub_info", 0),
               Call("get_descriptor", dev, 0, "get_hub_info", d.len)>>
             \o HubInfoClose(dev, d.len)

\* get_hub_info(dev, info): the return code, the hub_info left in *info and
\* the libusb calls made.  The device handle is opened and closed inside.
get_hub_info(dev, info) ==
    LET d == DevTable[dev]
    IN  IF d.descRc # 0 THEN [rc |-> d.descRc, info |-> info, io |-> <<>>]
        ELSE IF d.bDeviceClass # LIBUSB_CLASS_HUB
        THEN [rc |-> LIBUSB_ERROR_INVALID_PARAM, info |-> info, io |-> <<>>]
        ELSE IF d.openRc # 0 THEN [rc |-> d.openRc, info |-> info, io |-> HubInfoIo(dev)]
        ELSE IF d.len >= minlen
        THEN [rc |-> 0,
              io |-> HubInfoIo(dev),
              info |-> [info EXCEPT
                  !.dev = dev,
                  !.bcd_usb = d.bcdUSB,
                  !.nports = d.bNbrPorts,
                  !.vendor = MakeVendor(d.idVendor, d.idProduct),
                  !.location = MakeLocation(d.bus, d.ports),
                  !.ppps = DecodePpps(d.wHubCharacteristics)]]
        ELSE [rc |-> ShortReadRc(d.len), info |-> info, io |-> HubInfoIo(dev)]

\* get_device_description(dev, description): the return code, the description
\* buffer afterwards and the libusb calls made.
\* The devices of the model have no manufacturer, product or serial strings.
get_device_description(dev, description) ==
    LET d == DevTable[dev]
        r == get_hub_info(dev, ZeroInfo)
        by == "get_device_description"
        ports == IF d.openRc = 0 /\ d.bDeviceClass = LIBUSB_CLASS_HUB /\ r.rc = 0
                 THEN <<",", " ", "U", "S", "B", " ">> \o FmtHex(r.info.bcd_usb \div 256)
                      \o <<".">> \o FmtHex02(r.info.bcd_usb % 256) \o <<",", " ">>
                      \o FmtDec(r.info.nports) \o <<" ", "p", "o", "r", "t", "s">>
                 ELSE <<>>
    IN  IF d.descRc # 0 THEN [rc |-> d.descRc, description |-> description, io |-> <<>>]
        ELSE [rc |-> 0,
              description |-> MakeVendor(d.idVendor, d.idProduct) \o ports,
              io |-> IF d.openRc # 0 THEN <<Call("open", dev, 0, by, d.openRc)>>
                     ELSE <<Call("open", dev, 0, by, 0)>>
                          \o (IF d.bDeviceClass = LIBUSB_CLASS_HUB THEN r.io ELSE <<>>)
                          \o <<Call("close", dev, 0, by, 0)>>]

----------------------------------------------------------------------------
(* usb_find_hubs: the scan loop *)

\* Variant: the vendor filter compared with the whole vendor string.
FilterActionable_WholeVendor(loc, ven, info) ==
    LET a1 == IF strlen(loc) > 0 /\ strcasecmp(loc, info.location) # 0 THEN 0 ELSE 1
    IN  IF strlen(ven) > 0 /\ strcasecmp(ven, info.vendor) # 0
        THEN 0 ELSE a1

\* The actionable flag of a hub that is being inserted, after both filters.
FilterActionable(loc, ven, info) ==
    LET a1 == IF strlen(loc) > 0 /\ strcasecmp(loc, info.location) # 0 THEN 0 ELSE 1
    IN  IF strlen(ven) > 0 /\ strncasecmp(ven, info.vendor, strlen(ven)) # 0
        THEN 0 ELSE a1

\* Variant: the PPPS test left out.
ShouldInsert_IgnorePpps(info, count) == count < MAX_HUBS

\* Variant: the capacity of the registry is not tested.
ShouldInsert_NoCapacity(info, count) == info.ppps # 0

\* if (info.ppps) if (hub_count < MAX_HUBS)
ShouldInsert(info, count) == info.ppps # 0 /\ count < MAX_HUBS

\* Variant: the new record is stored in front of the others.
InsertHub_Front(hs, info) == <<info>> \o hs

\* memcpy(&hubs[hub_count], &info, sizeof(info))
InsertHub(hs, info) == Append(hs, info)

\* The state of usb_find_hubs and of the globals when it is entered.
FindInit ==
    /\ pc = "scan"
    /\ i = 0
    /\ match = -1
    /\ perm_ok = 1
    /\ hubs = <<>>
    /\ hub_count = 0
    /\ hub_phys_count = 0
    /\ rc = 0
    /\ io = <<>>

\* The options of main at their defaults, main not started.
MainIdle ==
    /\ mpc = "find"
    /\ opt_action = POWER_KEEP
    /\ opt_ports = ALL_HUB_PORTS
    /\ opt_reset = 0
    /\ opt_repeat = 1
    /\ opt_port = -1
    /\ main_k = 0
    /\ main_i = 0
    /\ port_status = <<>>
    /\ status_rc = 0
    /\ sent = <<>>
    /\ exit_rc = 0

\* usb_find_hubs called on a snapshot with the filters and the exact flag.
Init ==
    /\ usb_devs \in Snapshots
    /\ \E f \in FilterOpts : location = f[1] /\ vendor = f[2]
    /\ exact \in {0, 1}
    /\ FindInit
    /\ MainIdle

\* One iteration of while ((dev = usb_devs[i++]) != NULL).
ScanDevice ==
    /\ pc = "scan"
    /\ i < Len(usb_devs)
    /\ i' = i + 1
    /\ LET dev == usb_devs[i + 1]
           d == DevTable[dev]
       IN  IF d.descRc = 0 /\ d.bDeviceClass # LIBUSB_CLASS_HUB
           THEN \* only scan for hubs
                /\ rc' = d.descRc
                /\ io' = <<>>
                /\ UNCHANGED <<perm_ok, hubs, hub_count>>
           ELSE LET r == get_hub_info(dev, ZeroInfo)
                    g == get_device_description(dev, <<>>)
                    info == [r.info EXCEPT !.description = g.description]
                IN  /\ rc' = r.rc
                    /\ io' = r.io \o g.io
                    /\ perm_ok' = IF r.rc # 0 THEN 0 ELSE perm_ok
                    /\ IF ShouldInsert(info, hub_count)
                       THEN /\ hubs' = InsertHub(hubs,
                                   [info EXCEPT !.actionable =
                                       FilterActionable(location, vendor, info)])
                            /\ hub_count' = hub_count + 1
                       ELSE UNCHANGED <<hubs, hub_count>>
    /\ UNCHANGED <<usb_devs, location, vendor, exact, pc, match, hub_phys_count>>
    /\ UNCHANGED mainVars

\* The scan loop ends at the terminating NULL; hub_phys_count = 0.
ScanEnd ==
    /\ pc = "scan"
    /\ i >= Len(usb_devs)
    /\ pc' = "correlate"
    /\ i' = 0
    /\ hub_phys_count' = 0
    /\ io' = <<>>
    /\ UNCHANGED <<usb_devs, location, vendor, exact, match, perm_ok, hubs, hub_count, rc>>
    /\ UNCHANGED mainVars

----------------------------------------------------------------------------
(* usb_find_hubs: the correlation loop *)

IsUsb2(h) == h.bcd_usb < USB_SS_BCD

\* Variant: the exact flag left out of the counting condition.
CountsAsPhysical_Usb2Only(h, ex) == IsUsb2(h)

\* if (hubs[i].bcd_usb < USB_SS_BCD || exact) hub_phys_count++
CountsAsPhysical(h, ex) == IsUsb2(h) \/ ex # 0

\* if (p1 && p2 && strcasecmp(p1, p2)==0)
PortPathMatch(h1, h2) ==
    LET p1 == strchr(h1.location, "-")
        p2 == strchr(h2.location, "-")
    IN  p1 # NULL /\ p2 # NULL /\ strcasecmp(p1, p2) = 0

\* Hub and its dual must be different types and have the same vendor.
DualCandidate(h1, h2) ==
    /\ IsUsb2(h1) # IsUsb2(h2)
    /\ strncasecmp(h1.vendor, h2.vendor, 4) = 0

\* The first index from j on that the inner loop does not skip with continue
\* (if (i==j) continue; different types and same vendor), or n if there is none.
NextCandidate(hs, n, ii, j) ==
    LET rest == {c \in j..(n - 1) : c # ii /\ DualCandidate(hs[ii + 1], hs[c + 1])}
    IN  IF rest = {} THEN n ELSE CHOOSE c \in rest : \A e \in rest : c <= e

RECURSIVE DualLoop(_, _, _, _, _)
\* for (j=0; j<hub_count; j++) of hub ii, from index j with the current match.
DualLoop(hs, n, ii, j, m) ==
    LET c == NextCandidate(hs, n, ii, j)
    IN  IF c >= n THEN m
        ELSE LET m1 == IF m < 0 /\ hs[c + 1].actionable = 0 THEN c ELSE m
             IN  IF PortPathMatch(hs[ii + 1], hs[c + 1]) THEN c
                 ELSE DualLoop(hs, n, ii, c + 1, m1)

RECURSIVE DualLoop_KeepProvisional(_, _, _, _, _)
\* Variant: a port path match does not replace a provisional choice.
DualLoop_KeepProvisional(hs, n, ii, j, m) ==
    LET c == NextCandidate(hs, n, ii, j)
    IN  IF c >= n THEN m
        ELSE LET m1 == IF m < 0 /\ hs[c + 1].actionable = 0 THEN c ELSE m
             IN  IF m1 < 0 /\ PortPathMatch(hs[ii + 1], hs[c + 1]) THEN c
                 ELSE DualLoop_KeepProvisional(hs, n, ii, c + 1, m1)

FindDual_KeepProvisional(hs, n, ii) == DualLoop_KeepProvisional(hs, n, ii, 0, -1)

\* The value of match after the inner loop for hub ii.
FindDual(hs, n, ii) == DualLoop(hs, n, ii, 0, -1)

\* Variant: the flag of the match is flipped instead of set.
Promote_Toggle(hs, m) ==
    IF m >= 0 THEN [hs EXCEPT ![m + 1].actionable = 1 - @] ELSE hs

\* if (match >= 0) hubs[match].actionable = 1
Promote(hs, m) == IF m >= 0 THEN [hs EXCEPT ![m + 1].actionable = 1] ELSE hs

\* One iteration of for (i=0; i<hub_count; i++): the hubs, the count and match.
CorrelateStep(hs, n, count, ii, ex) ==
    IF hs[ii + 1].actionable = 0
    THEN [hubs |-> hs, hub_phys_count |-> count, match |-> -1]
    ELSE LET c1 == IF CountsAsPhysical(hs[ii + 1], ex) THEN count + 1 ELSE count
         IN  IF ex # 0
             THEN [hubs |-> hs, hub_phys_count |-> c1, match |-> -1]
             ELSE LET m == FindDual(hs, n, ii)
                  IN  [hubs |-> Promote(hs, m), hub_phys_count |-> c1, match |-> m]

Correlate ==
    /\ pc = "correlate"
    /\ i < hub_count
    /\ LET r == CorrelateStep(hubs, hub_count, hub_phys_count, i, exact)
       IN  /\ hubs' = r.hubs
           /\ hub_phys_count' = r.hub_phys_count
           /\ match' = r.match
    /\ i' = i + 1
    /\ io' = <<>>
    /\ UNCHANGED <<usb_devs, location, vendor, exact, pc, perm_ok, hub_count, rc>>
    /\ UNCHANGED mainVars

RECURSIVE CorrelationFrom(_, _, _, _, _)
\* hub_phys_count = 0 and the whole loop for (i=0; i<hub_count; i++).
CorrelationFrom(hs, n, count, ii, ex) ==
    IF ii >= n THEN [hubs |-> hs, hub_phys_count |-> count]
    ELSE LET r == CorrelateStep(hs, n, count, ii, ex)
         IN  CorrelationFrom(r.hubs, n, r.hub_phys_count, ii + 1, ex)

CorrelationPass(hs, n, ex) == CorrelationFrom(hs, n, 0, 0, ex)

\* The value usb_find_hubs returns.
ReturnValue(ok, count) == IF ok = 0 /\ count = 0 THEN LIBUSB_ERROR_ACCESS ELSE count

Return ==
    /\ pc = "correlate"
    /\ i >= hub_count
    /\ rc' = ReturnValue(perm_ok, hub_phys_count)
    /\ pc' = "done"
    /\ io' = <<>>
    /\ UNCHANGED <<usb_devs, location, vendor, exact, i, match, perm_ok,
                   hubs, hub_count, hub_phys_count>>
    /\ UNCHANGED mainVars

Next == ScanDevice \/ ScanEnd \/ Correlate \/ Return

Spec == Init /\ [][Next]_vars

----------------------------------------------------------------------------
(* Vocabulary of the properties, stated on the strings themselves. *)

Fold(c) ==
    CASE c = "A" -> "a" [] c = "B" -> "b" [] c = "C" -> "c"
      [] c = "D" -> "d" [] c = "E" -> "e" [] c = "F" -> "f" [] OTHER -> c

FoldStr(s) == [k \in 1..Len(s) |-> Fold(s[k])]

SameText(s, t) == FoldStr(s) = FoldStr(t)

StartsWith(s, prefix) ==
    Len(prefix) <= Len(s) /\ SameText(SubSeq(s, 1, Len(prefix)), prefix)

HasPath(h) == \E k \in 1..Len(h.location) : h.location[k] = "-"

\* The location from its first '-' onward.
PathOf(h) ==
    LET first == CHOOSE k \in 1..Len(h.location) :
                     h.location[k] = "-" /\ \A m \in 1..(k - 1) : h.location[m] # "-"
    IN  SubSeq(h.location, first, Len(h.location))

PassesFilters(h) ==
    /\ (location = <<>> \/ SameText(location, h.location))
    /\ (vendor = <<>> \/ StartsWith(h.vendor, vendor))

Registry == 1..Len(hubs)

Actionable == {k \in Registry : hubs[k].actionable = 1}

MinOf(S) == CHOOSE x \in S : \A y \in S : x <= y

\* The hubs (0-based) that can be the dual of hub ii: the other protocol
\* generation and the same first 4 characters of the vendor string.
Candidates(hs, ii) ==
    {j \in 0..(Len(hs) - 1) :
        /\ j # ii
        /\ (hs[ii + 1].bcd_usb < 768) # (hs[j + 1].bcd_usb < 768)
        /\ SameText(SubSeq(hs[ii + 1].vendor, 1, 4), SubSeq(hs[j + 1].vendor, 1, 4))}

PathCandidates(hs, ii) ==
    {j \in Candidates(hs, ii) :
        /\ HasPath(hs[ii + 1]) /\ HasPath(hs[j + 1])
        /\ SameText(PathOf(hs[ii + 1]), PathOf(hs[j + 1]))}

FreshCandidates(hs, ii) == {j \in Candidates(hs, ii) : hs[j + 1].actionable = 0}

ExpectedDual(hs, ii) ==
    IF PathCandidates(hs, ii) # {} THEN MinOf(PathCandidates(hs, ii))
    ELSE IF FreshCandidates(hs, ii) # {} THEN MinOf(FreshCandidates(hs, ii))
    ELSE -1

\* A physical hub: the vendor and the port path its personas share (a hub
\* without a port path is identified by its whole location).
PhysKey(h) == <<SubSeq(h.vendor, 1, 4), IF HasPath(h) THEN PathOf(h) ELSE h.location>>

\* The devices whose hub descriptor transfer returned less than minlen bytes.
ShortRead(dev) ==
    LET d == DevTable[dev]
    IN  /\ d.descRc = 0 /\ d.bDeviceClass = 9 /\ d.openRc = 0
        /\ d.len < 9

\* The devices on which a descriptor read of the scan failed.
ReadFailed(dev) ==
    LET d == DevTable[dev]
    IN  \/ d.descRc # 0
        \/ d.bDeviceClass = 9 /\ (d.openRc # 0 \/ d.len < 9)

Scanned == IF pc = "scan" THEN 1..i ELSE 1..Len(usb_devs)

----------------------------------------------------------------------------
(* Properties *)

\* C1: in non-exact mode, when usb_find_hubs returns, hub_phys_count equals
\* the number of registry entries with actionable = 1 and bcd_usb < 0x0300.
C1_CountIsActionableUsb2 ==
    (pc = "done" /\ exact = 0) =>
        hub_phys_count = Cardinality({k \in Actionable : hubs[k].bcd_usb < 768})

\* C2: in non-exact mode hub_phys_count counts each physical hub that has at
\* least one actionable persona exactly once, whether it exposes one persona
\* or a USB2 and a USB3 persona.
C2_CountIsPhysicalHubs ==
    (pc = "done" /\ exact = 0) =>
        hub_phys_count = Cardinality({PhysKey(hubs[k]) : k \in Actionable})

\* C3: running the correlation pass a second time on the registry the first
\* run produced leaves every actionable flag and hub_phys_count unchanged.
C3_CorrelationIdempotent ==
    pc = "done" =>
        CorrelationPass(hubs, hub_count, exact)
            = [hubs |-> hubs, hub_phys_count |-> hub_phys_count]

\* C4: in non-exact mode the correlator promotes for an actionable hub i at
\* most one other hub: the first candidate (opposite generation, same 4
\* vendor characters) whose port path equals i's if there is one, otherwise
\* the first candidate that is not yet actionable; nothing else changes.
C4_PromotesExpectedDual ==
    [][(pc = "correlate" /\ i < hub_count /\ exact = 0 /\ hubs[i + 1].actionable = 1) =>
          LET e == ExpectedDual(hubs, i)
          IN  /\ match' = e
              /\ e # i
              /\ Len(hubs') = Len(hubs)
              /\ \A k \in Registry : k # e + 1 => hubs'[k] = hubs[k]
              /\ e >= 0 => hubs'[e + 1] = [hubs[e + 1] EXCEPT !.actionable = 1]]_vars

\* C4 witness: a hub was promoted by its port path although an earlier
\* candidate that is not actionable was the provisional choice.
C4_Witness ==
    /\ pc = "correlate" /\ exact = 0 /\ i > 0 /\ match >= 0
    /\ hubs[i].actionable = 1
    /\ match \in PathCandidates(hubs, i - 1)
    /\ \E j \in Candidates(hubs, i - 1) : j < match /\ hubs[j + 1].actionable = 0

\* C5: only hubs whose decoded PPPS flag is true are in the registry, so no
\* registry entry with ppps = 0 is actionable, in every state.
C5_OnlyPppsInRegistry ==
    /\ Len(hubs) = hub_count
    /\ \A k \in Registry :
          LET w == DevTable[hubs[k].dev].wHubCharacteristics
          IN  /\ hubs[k].ppps = 1
              /\ w % 4 = 1 /\ (w \div 8) % 4 \in {0, 1}
    /\ \A k \in Registry : hubs[k].ppps = 0 => hubs[k].actionable = 0

\* C5 witness: a hub without per-port power switching was scanned and left
\* out while another hub is actionable.
C5_Witness ==
    /\ pc = "done"
    /\ \E k \in Scanned : usb_devs[k] = "ganged"
    /\ Actionable # {}
    /\ \A k \in Registry : hubs[k].dev # "ganged"

\* C6: the filters are applied to every hub before the correlation pass
\* starts, the pass only ever changes an actionable flag from 0 to 1, and a
\* hub that is actionable after filtering is actionable at the return.
C6_FilterThenMonotonic ==
    [][/\ (pc = "scan" /\ pc' = "correlate") =>
              \A k \in Registry : hubs[k].actionable = 1 <=> PassesFilters(hubs[k])
       /\ pc = "correlate" =>
              /\ Len(hubs') = Len(hubs)
              /\ \A k \in Registry : hubs[k].actionable = 1 => hubs'[k].actionable = 1
       /\ pc' = "done" =>
              \A k \in Registry : PassesFilters(hubs[k]) => hubs'[k].actionable = 1]_vars

\* C6 witness: at the return one hub that passed the filters and one that
\* was promoted are both actionable.
C6_Witness ==
    /\ pc = "done" /\ exact = 0
    /\ \E k \in Actionable : PassesFilters(hubs[k])
    /\ \E k \in Actionable : ~PassesFilters(hubs[k])

\* C7: with the exact flag no promotion occurs: every actionable flag at the
\* return is its value after filtering and hub_phys_count is the number of
\* actionable hubs of either generation.
C7_ExactNoPromotion ==
    (pc = "done" /\ exact # 0) =>
        /\ \A k \in Registry : hubs[k].actionable = 1 <=> PassesFilters(hubs[k])
        /\ hub_phys_count = Cardinality(Actionable)

\* C7 witness: exact mode returned with an actionable USB3 hub counted and
\* a dual candidate of an actionable hub left not actionable.
C7_Witness ==
    /\ pc = "done" /\ exact = 1 /\ hub_phys_count >= 1
    /\ \E k \in Actionable : hubs[k].bcd_usb >= 768
    /\ \E k \in Actionable :
          \E j \in Candidates(hubs, k - 1) : hubs[j + 1].actionable = 0

\* C8: usb_find_hubs returns the permission error if and only if a descriptor
\* read failed during the scan and no hub ended up actionable; otherwise it
\* returns the non-negative physical hub count.
C8_ErrorIffFailedAndNoHub ==
    pc = "done" =>
        /\ rc = LIBUSB_ERROR_ACCESS <=>
              ((\E k \in 1..Len(usb_devs) : ReadFailed(usb_devs[k])) /\ Actionable = {})
        /\ rc # LIBUSB_ERROR_ACCESS => (rc = hub_phys_count /\ rc >= 0)

\* C9: right after filtering an inserted hub is actionable if and only if
\* the location filter is empty or equals its location up to case, and the
\* vendor filter is empty or is a prefix of its vendor string up to case.
C9_FilterSemantics ==
    /\ (pc = "scan" \/ (pc = "correlate" /\ i = 0)) =>
          \A k \in Registry : hubs[k].actionable = 1 <=> PassesFilters(hubs[k])
    /\ FilterActionable(<<>>, <<"1", "a", "2", "b">>,
          [ZeroInfo EXCEPT !.vendor = <<"1", "A", "2", "B", ":", "0", "0", "0", "2">>]) = 1
    /\ FilterActionable(<<>>, <<"1", "a", "2", "b">>,
          [ZeroInfo EXCEPT !.vendor = <<"2", "a", "2", "b", ":", "0", "0", "0", "1">>]) = 0

\* C9 witness: hubs at 1-2, 1-3 and 2-1 were filtered by location 1-2 and
\* only the hub at 1-2 is actionable.
C9_Witness ==
    /\ pc = "scan" /\ hub_count = 3
    /\ location = <<"1", "-", "2">> /\ vendor = <<>>
    /\ {hubs[k].location : k \in Registry}
          = {<<"1", "-", "2">>, <<"1", "-", "3">>, <<"2", "-", "1">>}
    /\ \A k \in Registry : hubs[k].actionable = 1 <=> hubs[k].location = <<"1", "-", "2">>

\* C10: for every hub-class device whose hub descriptor transfer returns less
\* than the minimum length (0 and negative results included) get_hub_info
\* returns non-zero, the scan records the failure and does not insert it.
C10_ShortReadFails ==
    pc = "scan" =>
        \A k \in Scanned :
            ShortRead(usb_devs[k]) =>
                /\ perm_ok = 0
                /\ k = i => rc # 0
                /\ \A h \in Registry : hubs[h].dev # usb_devs[k]


----------------------------------------------------------------------------
(* The scan order and the promotions *)

\* The devices that answer the device descriptor request as a hub, can be
\* opened, return a whole hub descriptor and switch power per port.
IsPppsHub(dev) ==
    LET d == DevTable[dev]
        w == d.wHubCharacteristics
    IN  /\ d.descRc = 0 /\ d.bDeviceClass = 9 /\ d.openRc = 0 /\ d.len >= 9
        /\ w % 4 = 1
        /\ (w \div 8) % 4 \in {0, 1}

RegistryDevs == [n \in 1..Len(hubs) |-> hubs[n].dev]

\* C13: the scan visits the devices of the snapshot one by one in enumeration
\* order and never stops early: at every moment the registry holds exactly the
\* PPPS hubs among the devices visited so far, in enumeration order, whatever
\* failed on the devices before them, and once the scan is over these are the
\* PPPS hubs of the whole snapshot.
C13_ScanInOrder ==
    /\ (pc = "scan" => i \in 0..Len(usb_devs))
    /\ RegistryDevs = SelectSeq(SubSeq(usb_devs, 1, Cardinality(Scanned)), IsPppsHub)

\* The scan is over, two hubs were inserted, and a device on which a
\* descriptor read failed was visited before the second of them.
C13_Witness ==
    /\ pc = "done"
    /\ Len(hubs) >= 2
    /\ \E a, b \in 1..Len(usb_devs) :
          /\ a < b
          /\ ReadFailed(usb_devs[a])
          /\ usb_devs[b] = hubs[2].dev

\* C18: in non-exact mode every hub that is actionable when usb_find_hubs
\* returns passed the filters itself or is a possible dual (other protocol
\* generation, same vendor) of a hub that passed the filters.
C18_ActionableByFilterOrDual ==
    (pc = "done" /\ exact = 0) =>
        \A n \in Actionable :
            \/ PassesFilters(hubs[n])
            \/ \E j \in Registry :
                  /\ PassesFilters(hubs[j])
                  /\ (n - 1) \in Candidates(hubs, j - 1)


----------------------------------------------------------------------------
(* The decoding of wHubCharacteristics *)

\* usb_find_hubs on one hub whose hub characteristics word is any of Words.
InitDecode ==
    /\ \E w \in Words : usb_devs = <<WordName(w)>>
    /\ location = <<>>
    /\ vendor = <<>>
    /\ exact \in {0, 1}
    /\ FindInit
    /\ MainIdle

SpecDecode == InitDecode /\ [][Next]_vars

\* C15: a scanned hub is decoded as PPPS (and so inserted in the registry,
\* with ppps = 1) if and only if bits [1:0] of its hub characteristics word are
\* 01 and bits [4:3] are 00 or 01, for every value of the other bits.
C15_PppsDecode ==
    \A n \in Scanned :
        LET w == DevTable[usb_devs[n]].wHubCharacteristics
            inserted == \E h \in Registry : hubs[h].dev = usb_devs[n] /\ hubs[h].ppps = 1
        IN  inserted <=> (w % 4 = 1 /\ (w \div 8) % 4 \in {0, 1})

\* A hub was scanned and inserted whose word has bits set outside [1:0] and
\* [4:3].
C15_Witness ==
    /\ pc = "done"
    /\ Len(hubs) = 1
    /\ LET w == DevTable[hubs[1].dev].wHubCharacteristics
       IN  (w \div 4) % 2 = 1 /\ w >= 32

----------------------------------------------------------------------------
(* The capacity of the registry *)

\* usb_find_hubs on snapshots of about MAX_HUBS PPPS hubs, after a device that
\* is not inserted or none.
InitCap ==
    /\ \E first \in {<<>>, <<"kbd">>, <<"xfer8">>, <<"ganged">>} :
       \E n \in (MAX_HUBS - 1)..(MAX_HUBS + CapExtra) :
          usb_devs = first \o [m \in 1..n |-> PortName(m)]
    /\ location = <<>>
    /\ vendor = <<>>
    /\ exact \in {0, 1}
    /\ FindInit
    /\ MainIdle

SpecCap == InitCap /\ [][Next]_vars

\* The first n elements of s, or all of s if it has fewer.
FirstN(s, n) == SubSeq(s, 1, IF Len(s) < n THEN Len(s) ELSE n)

\* C14: hub_count never exceeds MAX_HUBS; the registry holds the first MAX_HUBS
\* PPPS hubs visited, in enumeration order, and no other; the call returns the
\* count of physical hubs among the inserted records and no error.
C14_RegistryCapacity ==
    /\ hub_count <= MAX_HUBS
    /\ Len(hubs) = hub_count
    /\ RegistryDevs =
          FirstN(SelectSeq(SubSeq(usb_devs, 1, Cardinality(Scanned)), IsPppsHub), MAX_HUBS)
    /\ hub_phys_count <= hub_count
    /\ (pc = "done" => rc = hub_count /\ hub_phys_count = hub_count)

\* More PPPS hubs than MAX_HUBS were enumerated and the call returned.
C14_Witness ==
    /\ pc = "done"
    /\ Len(SelectSeq(usb_devs, IsPppsHub)) > MAX_HUBS
    /\ hub_count = MAX_HUBS


----------------------------------------------------------------------------
(* uhubctl: port status and power control *)

\* Largest number of devices in the snapshot when main runs on it.
MaxMainDevs == 2

USB_SS_PORT_LS_SS_DISABLED == 128

USB_SS_PORT_LS_RX_DETECT == 160

LIBUSB_ERROR_NO_DEVICE == -4

\* The devices attached when main runs: two personas of one hub, a USB3 hub of
\* another vendor, a keyboard on port 1 of the first hub and a hub whose
\* descriptor is short.
MainDevs == {"ti2", "ti3", "gl3", "kbd", "xfer8"}

MainSnapshots ==
    UNION {{s \in [1..n -> MainDevs] : \A a, b \in 1..n : s[a] = s[b] => a = b} :
           n \in 1..MaxMainDevs}

\* wPortStatus of a port that is powered with a device connected and enabled,
\* powered with nothing connected, and not powered.
StatusConnected(dev) ==
    IF DevTable[dev].bcdUSB < USB_SS_BCD THEN USB_PORT_STAT_POWER + 3
    ELSE USB_SS_PORT_STAT_POWER + 3

StatusPowered(dev) ==
    IF DevTable[dev].bcdUSB < USB_SS_BCD THEN USB_PORT_STAT_POWER
    ELSE USB_SS_PORT_STAT_POWER + USB_SS_PORT_LS_RX_DETECT

StatusOff(dev) ==
    IF DevTable[dev].bcdUSB < USB_SS_BCD THEN 0 ELSE USB_SS_PORT_LS_SS_DISABLED

\* The state of the four ports of a hub when main starts.
PortsMixed(dev) ==
    <<StatusConnected(dev), StatusPowered(dev), StatusOff(dev), StatusConnected(dev)>>

PortsOff(dev) == <<StatusOff(dev), StatusOff(dev), StatusOff(dev), StatusOff(dev)>>

\* The result of the status transfer on each port: 0, or the libusb error.
NoFailure == <<0, 0, 0, 0>>

\* ~x on a C int (two's complement).
IntNot(x) == -1 - x

\* a & b on C ints (two's complement): the bits of a negative x are those
\* that ~x has not.
IntAnd(a, b) ==
    IF a >= 0 /\ b >= 0 THEN BitAnd(a, b)
    ELSE IF a < 0 /\ b >= 0 THEN b - BitAnd(IntNot(a), b)
    ELSE IF a >= 0 /\ b < 0 THEN a - BitAnd(a, IntNot(b))
    ELSE -1 - (IntNot(a) + IntNot(b) - BitAnd(IntNot(a), IntNot(b)))

\* get_port_status(devh, port) on an open handle of dev.
get_port_status(dev, port, st, rcs) ==
    IF rcs[dev][port] < 0 THEN rcs[dev][port] ELSE st[dev][port]

\* libusb_get_parent(udev) == dev && libusb_get_port_number(udev) == port
IsChildAt(udev, dev, port) ==
    /\ DevTable[udev].bus = DevTable[dev].bus
    /\ DevTable[udev].ports = Append(DevTable[dev].ports, port)

RECURSIVE Concat(_)
\* The sequences of ss one after the other.
Concat(ss) == IF ss = <<>> THEN <<>> ELSE Head(ss) \o Concat(Tail(ss))

\* The libusb calls of the get_device_description calls whose results are
\* descs, made one after the other until one returns 0 (if (rc == 0) break).
UntilDescribed(descs) ==
    LET ok == {n \in 1..Len(descs) : descs[n].rc = 0}
        last == IF ok = {} THEN Len(descs) ELSE CHOOSE n \in ok : \A m \in ok : n <= m
    IN  Concat([n \in 1..last |-> descs[n].io])

\* The elements of devs attached to the port of dev, in the order of devs.
ChildrenAt(devs, dev, port) ==
    LET IsChild(udev) == IsChildAt(udev, dev, port)
    IN  SelectSeq(devs, IsChild)

\* The results of get_device_description on each element of children.
Described(children) ==
    [n \in 1..Len(children) |-> get_device_description(children[n], <<>>)]

\* while ((udev = usb_devs[i++]) != NULL) of print_port_status: the libusb
\* calls of get_device_description on the devices attached to the port.
ChildDescription(devs, dev, port) ==
    UntilDescribed(Described(ChildrenAt(devs, dev, port)))

\* (1 << (port-1)) & mask
PortSelected(mask, port) == BitAnd(mask, Pow2(port - 1)) # 0

\* The smallest element of a set of ports, or none if the set is empty.
FirstPort(S, none) == IF S = {} THEN none ELSE CHOOSE p \in S : \A q \in S : p <= q

\* One iteration of for (port = 1; port <= hub->nports; port++) of
\* print_port_status: the libusb calls made and the lines written.
PrintPort(hub, portmask, port, st, rcs, devs) ==
    LET by == "print_port_status"
        ps == get_port_status(hub.dev, port, st, rcs)
        read == Call("get_status", hub.dev, port, by, ps)
    IN  IF portmask > 0 /\ ~PortSelected(portmask, port) THEN <<>>
        ELSE IF ps = -1 THEN <<read, Call("fprintf", hub.dev, port, by, ps)>>
        ELSE <<read, Call("printf", hub.dev, port, by, ps)>>
             \o ChildDescription(devs, hub.dev, port)

\* The port at which the loop of print_port_status ends with break, or nports.
PrintBreak(hub, portmask, st, rcs) ==
    FirstPort({port \in 1..hub.nports :
                  /\ ~(portmask > 0 /\ ~PortSelected(portmask, port))
                  /\ get_port_status(hub.dev, port, st, rcs) = -1},
              hub.nports)

\* for (port = 1; port <= hub->nports; port++) of print_port_status.
PrintPorts(hub, portmask, st, rcs, devs) ==
    Concat([port \in 1..PrintBreak(hub, portmask, st, rcs) |->
               PrintPort(hub, portmask, port, st, rcs, devs)])

\* print_port_status(hub, portmask)
print_port_status(hub, portmask, st, rcs, devs) ==
    LET by == "print_port_status"
        openRc == DevTable[hub.dev].openRc
    IN  IF openRc # 0 THEN <<Call("open", hub.dev, 0, by, openRc)>>
        ELSE <<Call("open", hub.dev, 0, by, 0)>>
             \o PrintPorts(hub, portmask, st, rcs, devs)
             \o <<Call("close", hub.dev, 0, by, 0)>>


\* hubs[i].bcd_usb < USB_SS_BCD ? USB_PORT_STAT_POWER : USB_SS_PORT_STAT_POWER
PowerMask(hub) ==
    IF hub.bcd_usb < USB_SS_BCD THEN USB_PORT_STAT_POWER ELSE USB_SS_PORT_STAT_POWER

\* Variant: the power-off request in both passes.
PowerRequest_AlwaysClear(kk) == "clear"

\* (k == 0) ? LIBUSB_REQUEST_CLEAR_FEATURE : LIBUSB_REQUEST_SET_FEATURE
PowerRequest(kk) == IF kk = 0 THEN "clear" ELSE "set"

\* The state of a port after the hub has executed the request.
PortAfter(dev, request) == IF request = "clear" THEN StatusOff(dev) ELSE StatusPowered(dev)

\* A step of main recorded in sent: a power request with the status read
\* before it, a hub reset or the cycle delay.
Step(op, dev, port, kk, read) ==
    [op |-> op, dev |-> dev, port |-> port, k |-> kk, read |-> read]

\* while (repeat-- > 0) libusb_control_transfer(...)
Repeated(n, e) == [m \in 1..n |-> e]

\* The port states after the iteration of main's port loop for port: the
\* request is sent unless the port is not selected or has the target state.
PortStep(hub, kk, ports, port, st, rcs) ==
    LET ps == get_port_status(hub.dev, port, st, rcs)
        power_mask == PowerMask(hub)
    IN  IF ~PortSelected(ports, port) THEN [read |-> FALSE, send |-> FALSE, st |-> st]
        ELSE IF \/ kk = 0 /\ IntAnd(ps, power_mask) = 0
                \/ kk = 1 /\ IntAnd(ps, power_mask) # 0
        THEN [read |-> TRUE, send |-> FALSE, st |-> st]
        ELSE [read |-> TRUE, send |-> TRUE,
              st |-> [st EXCEPT ![hub.dev][port] = PortAfter(hub.dev, PowerRequest(kk))]]

\* The libusb calls and the requests sent by the iteration of main's port
\* loop for port.
PortCalls(hub, kk, ports, repeat_opt, port, st, rcs) ==
    LET ps == get_port_status(hub.dev, port, st, rcs)
        p == PortStep(hub, kk, ports, port, st, rcs)
        repeat == IF IntAnd(ps, IntNot(PowerMask(hub))) = 0 THEN 1
                  ELSE IF kk = 0 THEN repeat_opt ELSE 1
        n == IF p.send THEN repeat ELSE 0
        request == PowerRequest(kk)
    IN  [io |-> (IF p.read THEN <<Call("get_status", hub.dev, port, "main", ps)>>
                 ELSE <<>>)
                \o Repeated(n, Call(request, hub.dev, port, "main", 0)),
         sent |-> Repeated(n, Step(request, hub.dev, port, kk, ps))]

\* for (port=1; port <= hubs[i].nports; port++) of main: the port states
\* afterwards, the libusb calls and the requests sent.  A request changes the
\* state of its own port only.
PowerPorts(hub, kk, ports, repeat_opt, st, rcs) ==
    [st |-> [st EXCEPT ![hub.dev] =
                [port \in 1..hub.nports |->
                    PortStep(hub, kk, ports, port, st, rcs).st[hub.dev][port]]],
     io |-> Concat([port \in 1..hub.nports |->
                       PortCalls(hub, kk, ports, repeat_opt, port, st, rcs).io]),
     sent |-> Concat([port \in 1..hub.nports |->
                         PortCalls(hub, kk, ports, repeat_opt, port, st, rcs).sent])]

\* main from the end of the port loop (its outcome is r) to libusb_close: the
\* new status is printed and the hub is reset if k is 1 and -R was given.
AfterPorts(hub, kk, ports_opt, reset_opt, r, rcs, devs) ==
    [st |-> r.st,
     sent |-> r.sent \o (IF kk = 1 /\ reset_opt = 1
                         THEN <<Step("reset", hub.dev, 0, kk, 0)>> ELSE <<>>),
     io |-> <<Call("open", hub.dev, 0, "main", 0)>>
            \o r.io
            \o print_port_status(hub, ports_opt, r.st, rcs, devs)
            \o (IF kk = 1 /\ reset_opt = 1
                THEN <<Call("reset", hub.dev, 0, "main", 0)>> ELSE <<>>)
            \o <<Call("close", hub.dev, 0, "main", 0)>>]

\* The body of for (i=0; i<hub_count; i++) of main for an actionable hub when
\* an action is given: from libusb_open to libusb_close.
PowerHub(hub, kk, ports_opt, repeat_opt, reset_opt, st, rcs, devs) ==
    IF DevTable[hub.dev].openRc # 0
    THEN [st |-> st, sent |-> <<>>,
          io |-> <<Call("open", hub.dev, 0, "main", DevTable[hub.dev].openRc),
                   Call("close", NULL, 0, "main", 0)>>]
    ELSE AfterPorts(hub, kk, ports_opt, reset_opt,
                    PowerPorts(hub, kk, BitAnd(Pow2(hub.nports) - 1, ports_opt),
                               repeat_opt, st, rcs),
                    rcs, devs)

\* The body of for (i=0; i<hub_count; i++) of main for an actionable hub: the
\* current status is printed, then the power action if one is given.
HubBody(hub, kk, action, ports_opt, repeat_opt, reset_opt, st, rcs, devs) ==
    IF action = POWER_KEEP
    THEN [st |-> st, sent |-> <<>>,
          io |-> print_port_status(hub, ports_opt, st, rcs, devs)]
    ELSE [PowerHub(hub, kk, ports_opt, repeat_opt, reset_opt, st, rcs, devs)
             EXCEPT !.io = print_port_status(hub, ports_opt, st, rcs, devs) \o @]

\* The conditions under which pass k of for (k=0; k<2; k++) is skipped.
PassSkipped(kk, action) ==
    \/ kk = 0 /\ action = POWER_ON
    \/ kk = 1 /\ action = POWER_OFF
    \/ kk = 1 /\ action = POWER_KEEP


\* The states of the ports and the failing status transfers main runs with:
\* the transfer on port 2 succeeds, or fails with one of two libusb errors.
PortStateOpts ==
    {<<"mixed", NoFailure>>, <<"off", NoFailure>>,
     <<"mixed", <<0, LIBUSB_ERROR_IO, 0, 0>> >>,
     <<"mixed", <<0, LIBUSB_ERROR_NO_DEVICE, 0, 0>> >>}

Attached == {usb_devs[n] : n \in 1..Len(usb_devs)}

\* main of uhubctl after option parsing: -l, -e, -a, -p, -R and -r as given.
InitMain ==
    /\ usb_devs \in MainSnapshots
    /\ location \in {<<>>, <<"1", "-", "2">>}
    /\ vendor = <<>>
    /\ exact \in {0, 1}
    /\ FindInit
    /\ mpc = "find"
    /\ opt_action \in {POWER_KEEP, POWER_OFF, POWER_ON, POWER_CYCLE}
    /\ opt_ports \in {ALL_HUB_PORTS, 6}
    /\ \E o \in {<<0, 1>>, <<1, 2>>} : opt_reset = o[1] /\ opt_repeat = o[2]
    /\ opt_port = -1
    /\ main_k = 0
    /\ main_i = 0
    /\ \E o \in PortStateOpts :
          /\ port_status = [d \in Attached |->
                               IF o[1] = "mixed" THEN PortsMixed(d) ELSE PortsOff(d)]
          /\ status_rc = [d \in Attached |-> o[2]]
    /\ sent = <<>>
    /\ exit_rc = 0

\* if (rc <= 0) { ...; rc = 1; goto cleanup; }
MainNoHubs ==
    /\ mpc = "find" /\ pc = "done"
    /\ rc <= 0
    /\ exit_rc' = 1
    /\ mpc' = "exit"
    /\ io' = <<>>
    /\ UNCHANGED <<findVars, opt_action, opt_ports, opt_reset, opt_repeat, opt_port,
                   main_k, main_i, port_status, status_rc, sent>>

\* if (hub_phys_count > 1 && opt_action >= 0) { ...; exit(1); }
MainMultipleHubs ==
    /\ mpc = "find" /\ pc = "done"
    /\ rc > 0
    /\ hub_phys_count > 1 /\ opt_action >= 0
    /\ exit_rc' = 1
    /\ mpc' = "exit"
    /\ io' = <<>>
    /\ UNCHANGED <<findVars, opt_action, opt_ports, opt_reset, opt_repeat, opt_port,
                   main_k, main_i, port_status, status_rc, sent>>

\* Neither check fails: for (k=0; ...)
MainStart ==
    /\ mpc = "find" /\ pc = "done"
    /\ rc > 0
    /\ ~(hub_phys_count > 1 /\ opt_action >= 0)
    /\ mpc' = "pass"
    /\ main_k' = 0
    /\ main_i' = 0
    /\ io' = <<>>
    /\ UNCHANGED <<findVars, opt_action, opt_ports, opt_reset, opt_repeat, opt_port,
                   port_status, status_rc, sent, exit_rc>>

\* The continue statements at the head of for (k=0; k<2; k++).
PassSkip ==
    /\ mpc = "pass"
    /\ main_k < 2
    /\ PassSkipped(main_k, opt_action)
    /\ main_k' = main_k + 1
    /\ io' = <<>>
    /\ UNCHANGED <<findVars, mpc, opt_action, opt_ports, opt_reset, opt_repeat, opt_port,
                   main_i, port_status, status_rc, sent, exit_rc>>

\* One iteration of for (i=0; i<hub_count; i++) of main.
MainHub ==
    /\ mpc = "pass"
    /\ main_k < 2
    /\ ~PassSkipped(main_k, opt_action)
    /\ main_i < hub_count
    /\ main_i' = main_i + 1
    /\ IF hubs[main_i + 1].actionable = 0
       THEN /\ io' = <<>>
            /\ UNCHANGED <<port_status, sent>>
       ELSE \E r \in {HubBody(hubs[main_i + 1], main_k, opt_action, opt_ports,
                              opt_repeat, opt_reset, port_status, status_rc, usb_devs)} :
               /\ io' = r.io
               /\ port_status' = r.st
               /\ sent' = sent \o r.sent
    /\ UNCHANGED <<findVars, mpc, opt_action, opt_ports, opt_reset, opt_repeat, opt_port,
                   main_k, status_rc, exit_rc>>

\* The end of pass k: if (k == 0 && opt_action == POWER_CYCLE) sleep_ms(...)
PassEnd ==
    /\ mpc = "pass"
    /\ main_k < 2
    /\ ~PassSkipped(main_k, opt_action)
    /\ main_i >= hub_count
    /\ sent' = IF main_k = 0 /\ opt_action = POWER_CYCLE
               THEN Append(sent, Step("delay", NULL, 0, main_k, 0))
               ELSE sent
    /\ main_k' = main_k + 1
    /\ main_i' = 0
    /\ io' = <<>>
    /\ UNCHANGED <<findVars, mpc, opt_action, opt_ports, opt_reset, opt_repeat, opt_port,
                   port_status, status_rc, exit_rc>>

\* rc = 0; cleanup: ... return rc;
MainExit ==
    /\ mpc = "pass"
    /\ main_k >= 2
    /\ exit_rc' = 0
    /\ mpc' = "exit"
    /\ io' = <<>>
    /\ UNCHANGED <<findVars, opt_action, opt_ports, opt_reset, opt_repeat, opt_port,
                   main_k, main_i, port_status, status_rc, sent>>

NextMain ==
    \/ ScanDevice \/ ScanEnd \/ Correlate \/ Return
    \/ MainNoHubs \/ MainMultipleHubs \/ MainStart
    \/ PassSkip \/ MainHub \/ PassEnd \/ MainExit

SpecMain == InitMain /\ [][NextMain]_vars


----------------------------------------------------------------------------
(* Properties of uhubctl *)

\* The functions that open a device handle for the time of one call.
HandleFns == {"get_hub_info", "get_device_description", "print_port_status"}

\* The handles of dev that function f holds open after the first n calls.
HeldAfter(calls, n, f, dev) ==
    Cardinality({m \in 1..n : /\ calls[m].by = f /\ calls[m].dev = dev
                              /\ calls[m].op = "open" /\ calls[m].val = 0})
    - Cardinality({m \in 1..n : /\ calls[m].by = f /\ calls[m].dev = dev
                                /\ calls[m].op = "close"})

\* C11: get_hub_info, get_device_description and print_port_status close every
\* handle they opened, once, before they return: among the libusb calls of a
\* step each of them holds at most one handle of a device at any moment, closes
\* nothing it did not open, and holds none at the end of the step.
C11_HandlesClosed ==
    \A f \in HandleFns : \A dev \in Attached :
        /\ \A n \in 0..Len(io) : HeldAfter(io, n, f, dev) \in {0, 1}
        /\ HeldAfter(io, Len(io), f, dev) = 0

\* print_port_status gave up on a failed port status read after it had
\* described the device attached to an earlier port.
C11_Witness ==
    \E a, b, c, d \in 1..Len(io) :
        /\ a < b /\ b < c /\ c < d
        /\ io[a].by = "print_port_status" /\ io[a].op = "open" /\ io[a].val = 0
        /\ io[b].by = "get_device_description" /\ io[b].op = "close"
        /\ io[c].by = "print_port_status" /\ io[c].op = "get_status" /\ io[c].val < 0
        /\ io[d].by = "print_port_status" /\ io[d].op = "close"

\* Bit n (from 0) of the non-negative number x.
BitOf(x, n) == (x \div Pow2(n)) % 2

\* The calls of one run of print_port_status: from its open to its close.
PrintRuns ==
    {<<a, b>> \in (1..Len(io)) \X (1..Len(io)) :
        /\ a < b
        /\ io[a].by = "print_port_status" /\ io[a].op = "open" /\ io[a].val = 0
        /\ io[b].by = "print_port_status" /\ io[b].op = "close"
        /\ \A m \in (a + 1)..(b - 1) :
              ~(io[m].by = "print_port_status" /\ io[m].op = "close")}

\* C12: in every run of print_port_status the status of every selected port of
\* the hub is read, whatever happened on the other ports; a port is reported
\* with its status when the read succeeded and is not reported with a status
\* when the transfer returned a negative result.
C12_FailedReadOnlyThatPort ==
    \A run \in PrintRuns :
        LET dev == io[run[1]].dev
            inRun == run[1]..run[2]
        IN  \A port \in 1..DevTable[dev].bNbrPorts :
                BitOf(opt_ports, port - 1) = 1 =>
                    /\ \E m \in inRun : /\ io[m].op = "get_status"
                                        /\ io[m].by = "print_port_status"
                                        /\ io[m].port = port
                    /\ \A m \in inRun :
                          (io[m].op = "printf" /\ io[m].port = port) => io[m].val >= 0
                    /\ \A m \in inRun :
                          (/\ io[m].op = "get_status" /\ io[m].port = port
                           /\ io[m].by = "print_port_status" /\ io[m].val >= 0)
                          => \E q \in inRun : io[q].op = "printf" /\ io[q].port = port

PowerSteps == {n \in 1..Len(sent) : sent[n].op \in {"clear", "set"}}

\* The registry record of a device.
HubOf(dev) == hubs[CHOOSE n \in Registry : hubs[n].dev = dev]

\* C16: all the power requests of a run go to personas of one physical hub.
C16_OnePhysicalHub ==
    \A a, b \in PowerSteps :
        PhysKey(HubOf(sent[a].dev)) = PhysKey(HubOf(sent[b].dev))

\* C17: with action cycle every CLEAR_FEATURE is sent before the delay and
\* every SET_FEATURE after it; off sends no SET_FEATURE, on no CLEAR_FEATURE,
\* no action sends no request and no reset, there is a delay only in a cycle;
\* a hub is reset only if -R was given, in the power-on pass, after the
\* SET_FEATURE requests to that hub.
C17_CycleOrder ==
    /\ \A a, b \in 1..Len(sent) :
          a < b => /\ ~(sent[a].op = "delay" /\ sent[b].op \in {"clear", "delay"})
                   /\ ~(sent[a].op = "set" /\ sent[b].op \in {"clear", "delay"})
                   /\ ~(/\ sent[a].op = "reset" /\ sent[b].op = "set"
                        /\ sent[a].dev = sent[b].dev)
    /\ \A n \in 1..Len(sent) :
          /\ sent[n].op = "clear" => opt_action \in {POWER_OFF, POWER_CYCLE}
          /\ sent[n].op = "set" => opt_action \in {POWER_ON, POWER_CYCLE}
          /\ sent[n].op = "delay" => opt_action = POWER_CYCLE
          /\ sent[n].op = "reset" => /\ opt_reset = 1
                                    /\ sent[n].k = 1
                                    /\ opt_action \in {POWER_ON, POWER_CYCLE}
          /\ opt_action = POWER_CYCLE /\ sent[n].op = "set" =>
                \E a \in 1..(n - 1) : sent[a].op = "delay"

\* A cycle with -R has run to the end: ports were switched off, the delay was
\* made, ports were switched on and a hub was reset.
C17_Witness ==
    /\ mpc = "exit" /\ exit_rc = 0
    /\ opt_action = POWER_CYCLE
    /\ \E a, b, c, d \in 1..Len(sent) :
          /\ a < b /\ b < c /\ c < d
          /\ sent[a].op = "clear" /\ sent[b].op = "delay"
          /\ sent[c].op = "set" /\ sent[d].op = "reset"

\* C19: a power request goes to port p of a hub only if the hub is actionable,
\* p is one of its ports, the port mask selects p, and the status read before
\* it was read successfully and shows the power bit of the hub's generation set
\* for a power-off and clear for a power-on.
C19_RequestOnlyAfterGoodRead ==
    \A n \in PowerSteps :
        LET e == sent[n]
            hub == HubOf(e.dev)
            bit == IF hub.bcd_usb < 768 THEN 8 ELSE 9
        IN  /\ hub.actionable = 1
            /\ e.port \in 1..hub.nports
            /\ BitOf(opt_ports, e.port - 1) = 1
            /\ e.read >= 0
            /\ (e.op = "clear" => BitOf(e.read, bit) = 1)
            /\ (e.op = "set" => BitOf(e.read, bit) = 0)


----------------------------------------------------------------------------
(* uhubpwm *)

\* The iterations of while (1) of uhubpwm that are followed.
MaxPwmCycles == 3

\* main of uhubpwm after option parsing: -l and -e as given, and no -p,
\* -p 1, -p 2 or -p 5 (opt_port = atoi(optarg) - 1).
InitPwm ==
    /\ usb_devs \in MainSnapshots
    /\ location \in {<<>>, <<"1", "-", "2">>}
    /\ vendor = <<>>
    /\ exact \in {0, 1}
    /\ FindInit
    /\ mpc = "find"
    /\ opt_action = POWER_KEEP
    /\ opt_ports = ALL_HUB_PORTS
    /\ opt_reset = 0
    /\ opt_repeat = 1
    /\ opt_port \in {-1, 0, 1, 4}
    /\ main_k = 0
    /\ main_i = 0
    /\ port_status = [d \in Attached |-> PortsMixed(d)]
    /\ status_rc = [d \in Attached |-> NoFailure]
    /\ sent = <<>>
    /\ exit_rc = 0

\* for (i=0; i<hub_count; i++) { if (!hubs[i].actionable) continue; hub =
\* &hubs[i]; break; }: the index of the hub selected, or -1 for NULL.
PwmHub(hs, n) ==
    LET found == {j \in 0..(n - 1) : hs[j + 1].actionable # 0}
    IN  IF found = {} THEN -1 ELSE CHOOSE j \in found : \A m \in found : j <= m

\* The messages written with perror before the hub is opened.
PwmMessages(count, h, nports, port) ==
    (IF count # 1 THEN <<Step("Need exactly one hub!", NULL, 0, 0, 0)>> ELSE <<>>)
    \o (IF h < 0 THEN <<Step("No hub selected!", NULL, 0, 0, 0)>> ELSE <<>>)
    \o (IF port < 0 THEN <<Step("Need exactly one port!", NULL, 0, 0, 0)>> ELSE <<>>)
    \o (IF port >= nports THEN <<Step("Port out of range!", NULL, 0, 0, 0)>> ELSE <<>>)

\* The port states after the hub has received request with wIndex port: a
\* request for a port the hub does not have changes nothing.
PwmPortAfter(st, dev, nports, port, request) ==
    IF port \in 1..nports THEN [st EXCEPT ![dev][port] = PortAfter(dev, request)]
    ELSE st

\* if (rc <= 0) { ...; rc = 1; goto cleanup; } of uhubpwm
PwmNoHubs ==
    /\ mpc = "find" /\ pc = "done"
    /\ rc <= 0
    /\ exit_rc' = 1
    /\ mpc' = "exit"
    /\ io' = <<>>
    /\ UNCHANGED <<findVars, opt_action, opt_ports, opt_reset, opt_repeat, opt_port,
                   main_k, main_i, port_status, status_rc, sent>>

\* uhubpwm from the check of hub_phys_count to int k = 0: the messages, the
\* hub opened and the first CLEAR_FEATURE.
PwmOpen ==
    /\ mpc = "find" /\ pc = "done"
    /\ rc > 0
    /\ LET h == PwmHub(hubs, hub_count)
           hub == hubs[h + 1]
           msgs == PwmMessages(hub_phys_count, h, hub.nports, opt_port)
       IN  /\ main_i' = h
           /\ IF DevTable[hub.dev].openRc # 0
              THEN /\ io' = <<Call("open", hub.dev, 0, "main", DevTable[hub.dev].openRc),
                              Call("close", NULL, 0, "main", 0)>>
                   /\ sent' = sent \o msgs
                   /\ exit_rc' = 1
                   /\ mpc' = "exit"
                   /\ UNCHANGED port_status
              ELSE /\ io' = <<Call("open", hub.dev, 0, "main", 0),
                              Call("clear", hub.dev, opt_port, "main", 0)>>
                   /\ sent' = sent \o msgs \o <<Step("clear", hub.dev, opt_port, 0, 0)>>
                   /\ port_status' = PwmPortAfter(port_status, hub.dev, hub.nports,
                                                  opt_port, "clear")
                   /\ mpc' = "pwm"
                   /\ UNCHANGED exit_rc
    /\ main_k' = 0
    /\ UNCHANGED <<findVars, opt_action, opt_ports, opt_reset, opt_repeat, opt_port,
                   status_rc>>

\* One iteration of while (1) of uhubpwm.
PwmCycle ==
    /\ mpc = "pwm"
    /\ main_k < MaxPwmCycles
    /\ LET hub == hubs[main_i + 1]
           request == IF main_k % 2 = 1 THEN "set" ELSE "clear"
       IN  /\ io' = <<Call(request, hub.dev, opt_port, "main", 0)>>
           /\ sent' = Append(sent, Step(request, hub.dev, opt_port, main_k, 0))
           /\ port_status' = PwmPortAfter(port_status, hub.dev, hub.nports,
                                          opt_port, request)
    /\ main_k' = main_k + 1
    /\ UNCHANGED <<findVars, mpc, opt_action, opt_ports, opt_reset, opt_repeat, opt_port,
                   main_i, status_rc, exit_rc>>

NextPwm ==
    \/ ScanDevice \/ ScanEnd \/ Correlate \/ Return
    \/ PwmNoHubs \/ PwmOpen \/ PwmCycle

SpecPwm == InitPwm /\ [][NextPwm]_vars

\* C20: uhubpwm sends a power request only when exactly one physical hub was
\* counted, -p was given with a port of the selected hub, and the request
\* addresses the port number given with -p.
C20_PwmOnlyValidPort ==
    \A n \in PowerSteps :
        LET given == opt_port + 1
        IN  /\ hub_phys_count = 1
            /\ HubOf(sent[n].dev).actionable = 1
            /\ given \in 1..HubOf(sent[n].dev).nports
            /\ sent[n].port = given

====
